---- MODULE Spec2Model ----
(***************************************************************************)
(* Quick-SIN sentence analyzer: the psychometric fitter                    *)
(* (modules/analysis_utils.py), the Analyzer page (pages/2_Analyzer.py)    *)
(* and the generator's logistic curve (pages/1_Generator.py).              *)
(*                                                                         *)
(* Real numbers are exact rationals <<n, d>> in lowest terms with d > 0;   *)
(* floating-point rounding of the Python code is not modelled.  The fitted *)
(* coefficients of sklearn's LogisticRegression are an input of the model: *)
(* any pair (intercept, coef) of FitOutcomes may come back from a fit that *)
(* does not raise.                                                         *)
(*                                                                         *)
(* Specifications: SpecFit (one sentence's fit), Spec (the Analyzer page), *)
(* SpecErrors (fits that raise), SpecSelect (get_all_sentence_data on a    *)
(* stored table), SpecPages (fetch_all_with_filter request by request),    *)
(* SpecOrder (the batch on one table in two row orders), SpecSession (the  *)
(* fetch button's run ending early) and SpecGenerator (the Generator       *)
(* page's submission).  NULL columns are None, other column values Some(v);*)
(* strings that are matched against a pattern are sequences of characters. *)
(***************************************************************************)
EXTENDS Integers, Sequences, FiniteSets, TLC

VARIABLES
    processed_data,          \* 2_Analyzer.py:281 the rows handed to the fitter
    result,                  \* 2_Analyzer.py:303 the FitResult of that call
    curve,                   \* analysis_utils.py:409-413 reconstructed (a, coef)
    gen_center,              \* 1_Generator.py:73  predicted_mean_db
    gen_logit,               \* 1_Generator.py:95  z of logistic_p per grid SNR
    db,                      \* the rows get_all_sentence_data returns
    analysis_results_df,     \* st.session_state.analysis_results_df
    data_snr_range,          \* st.session_state.data_snr_range
    temp_download_data,      \* st.session_state.temp_download_data
    total_data_rows,         \* st.session_state.total_data_rows
    classification_method,   \* 2_Analyzer.py:112 the radio's selection
    ideal_range,             \* 2_Analyzer.py:128/138
    acceptable_range,        \* 2_Analyzer.py:129/139
    display_df,              \* 2_Analyzer.py:154-155
    excluded_ids,            \* 2_Analyzer.py:101
    statuses,                \* analysis_utils.py:204 each sentence's fit status, last batch
    trigger,                 \* the widget whose use started the last script run
    plot_call,               \* 2_Analyzer.py:243 how the call of the combined plot ended
    store,                   \* the rows of score_qsin joined with their report
    selection,               \* analysis_utils.py:39 what each mode's call returned
    matching,                \* the number of stored rows one filter matches
    page,                    \* analysis_utils.py:54 page
    all_rows,                \* analysis_utils.py:53 all_rows, as ranges of row positions
    requests,                \* the page requests sent so far
    fetch_pc,                \* where fetch_all_with_filter stands
    bank,                    \* 1_Generator.py:117 len(sentences_data)
    grid_pos,                \* 1_Generator.py:116 the entries of SNR_GRID handled
    created_ids,             \* 1_Generator.py:114
    total_records,           \* 1_Generator.py:115
    page_message,            \* 1_Generator.py:151-157 what the page says at the end
    shuffled,                \* the batch input, its rows in another order
    sentence_fits,           \* the fit each sentence's expanded sample gives
    summaries                \* analyze_all_sentences of db and of shuffled

vars == <<processed_data, result, curve, gen_center, gen_logit, db,
          analysis_results_df, data_snr_range, temp_download_data,
          total_data_rows, classification_method, ideal_range,
          acceptable_range, display_df, excluded_ids, statuses, trigger,
          plot_call, store, selection, matching, page, all_rows, requests,
          fetch_pc, bank, grid_pos, created_ids, total_records, page_message,
          shuffled, sentence_fits, summaries>>

fitVars == <<processed_data, result, curve, gen_center, gen_logit>>

pageVars == <<db, analysis_results_df, data_snr_range, temp_download_data,
              total_data_rows, classification_method, ideal_range,
              acceptable_range, display_df, excluded_ids, statuses, trigger,
              plot_call>>

selectVars == <<store, selection>>

pagingVars == <<matching, page, all_rows, requests, fetch_pc>>

generatorVars == <<bank, grid_pos, created_ids, total_records, page_message>>

orderVars == <<shuffled, sentence_fits, summaries>>

dataVars == <<selectVars, pagingVars, generatorVars, orderVars>>

-----------------------------------------------------------------------------
(* Bounds of the model *)

\* the largest number of observation rows of one sentence handed to the fitter
MaxRows == 4

\* the largest number of rows the batch fetch returns
MaxBatchRows == 6

-----------------------------------------------------------------------------
(* Python's None, and a key that a dict does not hold *)

None == <<>>

Some(x) == <<x>>

Absent == "<absent>"

-----------------------------------------------------------------------------
(* Exact rational arithmetic *)

Abs(x) == IF x < 0 THEN -x ELSE x

RECURSIVE GCD(_, _)
GCD(a, b) == IF b = 0 THEN a ELSE GCD(b, a % b)

Rat(n, d) ==
    LET s == IF d < 0 THEN -1 ELSE 1
        g == GCD(Abs(n), Abs(d))
    IN  <<(s * n) \div g, (s * d) \div g>>

R(n) == <<n, 1>>

RAdd(x, y) ==
    LET g == GCD(x[2], y[2])
    IN  Rat(x[1] * (y[2] \div g) + y[1] * (x[2] \div g), (x[2] \div g) * y[2])

RNeg(x) == <<-x[1], x[2]>>

RSub(x, y) == RAdd(x, RNeg(y))

RMul(x, y) == Rat(x[1] * y[1], x[2] * y[2])

RDiv(x, y) == Rat(x[1] * y[2], x[2] * y[1])

RLe(x, y) == x[1] * y[2] <= y[1] * x[2]

RLt(x, y) == x[1] * y[2] < y[1] * x[2]

RAbs(x) == <<Abs(x[1]), x[2]>>

\* rounding that takes a tie upwards
RoundHalfUp(x) ==
    LET fl  == x[1] \div x[2]
        rem == x[1] % x[2]
    IN  IF 2 * rem < x[2] THEN fl ELSE fl + 1

\* Python 3 round(): to the nearest integer, a tie to the even one
RoundHalfEven(x) ==
    LET fl  == x[1] \div x[2]
        rem == x[1] % x[2]
    IN  IF 2 * rem < x[2] THEN fl
        ELSE IF 2 * rem > x[2] THEN fl + 1
        ELSE IF fl % 2 = 0 THEN fl ELSE fl + 1

Max0(n) == IF n < 0 THEN 0 ELSE n

-----------------------------------------------------------------------------
(* The inputs: observation rows *)

\* the SNR levels of the observations (dB); the generator writes -5, 0, 5
SnrLevels == {-5, 0, 5, 10}

\* correct_rate = total_score / num_keywords: 0, 0.005 (half a keyword of
\* 100) and 1
Rates == {<<0, 1>>, <<1, 200>>, <<1, 1>>}

SentenceIds == {1, 2}

\* the text the sentence bank holds for a sentence
FullSentence(sid) == IF sid = 1 THEN "sentence one" ELSE "sentence two"

Row(sid, snr, rate) ==
    [sentence_id |-> sid, snr_level |-> snr, correct_rate |-> rate,
     full_sentence |-> FullSentence(sid)]

\* a total order on rows, used only to enumerate each table once
RowKey(r) ==
    (r.sentence_id * 100 + (r.snr_level + 50)) * 1000
        + (r.correct_rate[1] * 200) \div r.correct_rate[2]

RECURSIVE SortedTables(_, _)
SortedTables(rows, n) ==
    IF n = 0 THEN {<<>>}
    ELSE LET prev == SortedTables(rows, n - 1)
         IN  prev \cup
             {Append(t, r) : <<t, r>> \in
                {p \in {q \in prev : Len(q) = n - 1} \X rows :
                    Len(p[1]) = 0 \/ RowKey(p[1][Len(p[1])]) <= RowKey(p[2])}}

\* the observation tables of one sentence, each multiset of rows once
SentenceTables ==
    SortedTables({Row(1, l, r) : l \in SnrLevels, r \in Rates}, MaxRows)

-----------------------------------------------------------------------------
(* 4.1 Observation Aggregator: data.groupby('snr_level')['correct_rate'].mean() *)

RECURSIVE SortedSeq(_)
SortedSeq(S) ==
    IF S = {} THEN <<>>
    ELSE LET m == CHOOSE x \in S : \A y \in S : x <= y
         IN  <<m>> \o SortedSeq(S \ {m})

RECURSIVE SumRates(_, _)
SumRates(data, I) ==
    IF I = {} THEN R(0)
    ELSE LET i == CHOOSE x \in I : TRUE
         IN  RAdd(data[i].correct_rate, SumRates(data, I \ {i}))

MeanRate(data, level) ==
    LET I == {i \in DOMAIN data : data[i].snr_level = level}
    IN  RDiv(SumRates(data, I), R(Cardinality(I)))

groupby_mean(data) ==
    LET levels == SortedSeq({data[i].snr_level : i \in DOMAIN data})
    IN  [k \in DOMAIN levels |->
            [snr_level |-> levels[k], correct_rate |-> MeanRate(data, levels[k])]]

RatMin(S) == CHOOSE x \in S : \A y \in S : RLe(x, y)

RatMax(S) == CHOOSE x \in S : \A y \in S : RLe(y, x)

SeqRange(s) == {s[i] : i \in DOMAIN s}

SeqMin(s) == CHOOSE x \in SeqRange(s) : \A y \in SeqRange(s) : x <= y

SeqMax(s) == CHOOSE x \in SeqRange(s) : \A y \in SeqRange(s) : y <= x

-----------------------------------------------------------------------------
(* 4.2 Psychometric Fitter *)

n_trials == 100

\* y_resampled, run-length encoded: for each aggregated point the number of
\* 1s and of 0s that [1] * successes + [0] * failures holds (a negative
\* count gives an empty list)
y_resampled(agg_data) ==
    [k \in DOMAIN agg_data |->
        LET successes == RoundHalfEven(RMul(agg_data[k].correct_rate, R(n_trials)))
            failures  == n_trials - successes
        IN  [ones |-> Max0(successes), zeros |-> Max0(failures)]]

\* len(X_resampled): np.repeat(levels, n_trials)
X_resampled_len(agg_data) == n_trials * Len(agg_data)

RECURSIVE SumField(_, _)
SumField(s, f) ==
    IF s = <<>> THEN 0
    ELSE (IF f = "ones" THEN s[1].ones ELSE s[1].zeros) + SumField(Tail(s), f)

\* a fit that accepts a sample of a single class
FitError_lengths_only(agg_data) ==
    LET y == y_resampled(agg_data)
    IN  IF SumField(y, "ones") + SumField(y, "zeros") # X_resampled_len(agg_data)
        THEN "Error: Found input variables with inconsistent numbers of samples"
        ELSE Absent

\* LogisticRegression(solver='liblinear').fit raises ValueError when X and y
\* differ in length and when y holds a single class
FitError(agg_data) ==
    LET y == y_resampled(agg_data)
    IN  IF SumField(y, "ones") + SumField(y, "zeros") # X_resampled_len(agg_data)
        THEN "Error: Found input variables with inconsistent numbers of samples"
        ELSE IF SumField(y, "ones") = 0 \/ SumField(y, "zeros") = 0
        THEN "Error: This solver needs samples of at least 2 classes in the data"
        ELSE Absent

\* the SNR-50 values the fitted pairs below place the crossing at
Snr50Targets ==
    {<<1, 2>>, <<7, 2>>, <<5, 1>>, <<-1, 1>>, <<8, 1>>, <<10, 1>>, <<21, 2>>,
     <<-7, 1>>, <<-214, 25>>, <<-10, 1>>}

\* model.intercept_[0], model.coef_[0][0]: what a fit that does not raise
\* can return
FitOutcomes ==
    {[intercept |-> RMul(RNeg(t), <<2, 5>>), coef |-> <<2, 5>>] : t \in Snr50Targets}
    \cup {[intercept |-> <<1, 1>>, coef |-> <<0, 1>>],
          [intercept |-> <<1, 1000000>>, coef |-> <<-1, 2000000>>],
          [intercept |-> <<-1, 500000>>, coef |-> <<1, 1000000>>],
          [intercept |-> <<4, 5>>, coef |-> <<-2, 5>>]}

\* the classification with the envelope's boundaries taken as outside
fit_validity_strict(snr_50, snr_min, snr_max) ==
    LET valid_range_min == R(snr_min - 5)
        valid_range_max == R(snr_max + 5)
    IN  IF ~(RLt(valid_range_min, snr_50) /\ RLt(snr_50, valid_range_max))
        THEN "Extrapolated"
        ELSE IF RLe(<<1, 2>>, snr_50) /\ RLe(snr_50, <<7, 2>>) THEN "Ideal"
        ELSE IF RLe(<<-1, 1>>, snr_50) /\ RLe(snr_50, <<5, 1>>) THEN "Acceptable"
        ELSE "Warning"

\* analysis_utils.py:154-172
fit_validity(snr_50, snr_min, snr_max) ==
    LET valid_range_min == R(snr_min - 5)
        valid_range_max == R(snr_max + 5)
    IN  IF ~(RLe(valid_range_min, snr_50) /\ RLe(snr_50, valid_range_max))
        THEN "Extrapolated"
        ELSE IF RLe(<<1, 2>>, snr_50) /\ RLe(snr_50, <<7, 2>>) THEN "Ideal"
        ELSE IF RLe(<<-1, 1>>, snr_50) /\ RLe(snr_50, <<5, 1>>) THEN "Acceptable"
        ELSE "Warning"

\* analysis_utils.py:150
snr50_of(intercept, coef) == RDiv(RNeg(intercept), coef)

\* analysis_utils.py:151
slope_of(coef) == RMul(RDiv(coef, R(4)), R(100))

\* analysis_utils.py:147
is_zero_slope(coef) == RLt(RAbs(coef), <<1, 1000000>>)

\* the size test with the threshold one too low
not_enough_off_by_one(agg_data) == Len(agg_data) < 2

\* analysis_utils.py:122
not_enough(agg_data) == Len(agg_data) < 3

\* the degenerate-data test left out
all_same_unchecked(agg_data) == FALSE

\* analysis_utils.py:125
all_same(agg_data) ==
    LET rates == {agg_data[k].correct_rate : k \in DOMAIN agg_data}
    IN  RatMin(rates) = RatMax(rates)

\* analysis_utils.py:123
result_not_enough(agg_data) ==
    [status |-> "Error: Not Enough Data Points", snr_50 |-> None,
     slope |-> None, validity |-> Absent, model |-> None, plot_data |-> agg_data]

\* analysis_utils.py:126
result_all_same(agg_data) ==
    [status |-> "Error: All Same Results", snr_50 |-> None,
     slope |-> None, validity |-> Absent, model |-> None, plot_data |-> agg_data]

\* the zero-slope result with the model dropped
result_zero_slope_no_model(fit, agg_data) ==
    [status |-> "Error: Zero Slope", snr_50 |-> None,
     slope |-> None, validity |-> Absent, model |-> None, plot_data |-> agg_data]

\* analysis_utils.py:148
result_zero_slope(fit, agg_data) ==
    [status |-> "Error: Zero Slope", snr_50 |-> None,
     slope |-> None, validity |-> Absent, model |-> Some(fit), plot_data |-> agg_data]

\* the error result without its validity key
result_error_no_validity(message, agg_data) ==
    [status |-> message, snr_50 |-> None,
     slope |-> None, validity |-> Absent, model |-> None, plot_data |-> agg_data]

\* analysis_utils.py:184
result_error(message, agg_data) ==
    [status |-> message, snr_50 |-> None,
     slope |-> None, validity |-> "Error", model |-> None, plot_data |-> agg_data]

\* analysis_utils.py:150-181
result_success(fit, agg_data) ==
    LET levels == [k \in DOMAIN agg_data |-> agg_data[k].snr_level]
        snr_50 == snr50_of(fit.intercept, fit.coef)
    IN  [status |-> "Success",
         snr_50 |-> Some(snr_50),
         slope |-> Some(slope_of(fit.coef)),
         validity |-> fit_validity(snr_50, SeqMin(levels), SeqMax(levels)),
         model |-> Some(fit), plot_data |-> agg_data]

\* estimate_snr50_for_sentence(data), with the pair `fit` that model.fit
\* leaves in the model when it does not raise
estimate_snr50_for_sentence(data, fit) ==
    LET agg_data == groupby_mean(data)
    IN  IF not_enough(agg_data) THEN result_not_enough(agg_data)
        ELSE IF all_same(agg_data) THEN result_all_same(agg_data)
        ELSE IF FitError(agg_data) # Absent
        THEN result_error(FitError(agg_data), agg_data)
        ELSE IF is_zero_slope(fit.coef) THEN result_zero_slope(fit, agg_data)
        ELSE result_success(fit, agg_data)

-----------------------------------------------------------------------------
(* 4.5 Curve Reconstruction and the generator's curve *)

\* the reconstruction with the intercept's sign lost
reconstruct_curve_sign(snr50, slope_pct_per_db) ==
    LET coef == RMul(RDiv(slope_pct_per_db, R(100)), R(4))
    IN  [a |-> RMul(coef, snr50), coef |-> coef]

\* analysis_utils.py:409-412: (a, coef) of the curve drawn for a report row
reconstruct_curve(snr50, slope_pct_per_db) ==
    LET coef == RMul(RDiv(slope_pct_per_db, R(100)), R(4))
    IN  [a |-> RMul(RNeg(coef), snr50), coef |-> coef]

\* a + coef * x, the exponent of the logistic curve
logit(a, coef, x) == RAdd(a, RMul(coef, x))

\* 1_Generator.py:91-95: z of logistic_p(snr, center_db, slope_pct_per_db)
logistic_p_z(snr, center_db, slope_pct_per_db) ==
    LET b == RMul(RDiv(slope_pct_per_db, R(100)), R(4))
        a == RMul(RNeg(b), center_db)
    IN  RAdd(a, RMul(b, snr))

\* 1 / (1 + exp(-z)) = 0.5 exactly when z = 0
ProbIsHalf(z) == z = <<0, 1>>

\* 1_Generator.py:89
SNR_GRID == <<-5, 0, 5>>

\* 1_Generator.py:73 predicted_mean_db: the default 2.0 and a grid point
Centers == {<<2, 1>>, <<0, 1>>}

-----------------------------------------------------------------------------
(* The fitter applied to one sentence's rows, the reconstruction of its    *)
(* curve, and the generator's curve                                        *)

\* nothing selected from the table, no page requested, nothing generated,
\* nothing analyzed in two orders
SelectIdle ==
    /\ store = <<>>
    /\ selection = [m \in BOOLEAN |-> None]

PagingIdle ==
    /\ matching = 0
    /\ page = 0
    /\ all_rows = <<>>
    /\ requests = 0
    /\ fetch_pc = "idle"

GeneratorIdle ==
    /\ bank = 0
    /\ grid_pos = 0
    /\ created_ids = <<>>
    /\ total_records = 0
    /\ page_message = None

OrderIdle ==
    /\ shuffled = <<>>
    /\ sentence_fits = <<>>
    /\ summaries = <<>>

DataIdle == SelectIdle /\ PagingIdle /\ GeneratorIdle /\ OrderIdle

\* 2_Analyzer.py:22-30 the session before any button is used
SessionIdle ==
    /\ analysis_results_df = None
    /\ data_snr_range = None
    /\ temp_download_data = None
    /\ total_data_rows = None
    /\ classification_method = "IQR"
    /\ ideal_range = None
    /\ acceptable_range = None
    /\ display_df = None
    /\ excluded_ids = None
    /\ statuses = <<>>
    /\ trigger = "load"
    /\ plot_call = None

PageIdle == db = <<>> /\ SessionIdle

InitFit ==
    /\ processed_data \in SentenceTables
    /\ result = None
    /\ curve = None
    /\ gen_center = None
    /\ gen_logit = None
    /\ PageIdle
    /\ DataIdle

\* the fits model.fit can leave for this input: none when the code returns
\* or raises before the fit completes
FitChoices(data, outcomes) ==
    LET agg_data == groupby_mean(data)
    IN  IF not_enough(agg_data) \/ all_same(agg_data) \/ FitError(agg_data) # Absent
        THEN {[intercept |-> None, coef |-> None]}
        ELSE outcomes

\* 2_Analyzer.py:303 result = estimate_snr50_for_sentence(processed_data)
Estimate ==
    /\ result = None
    /\ \E fit \in FitChoices(processed_data, FitOutcomes) :
          result' = Some(estimate_snr50_for_sentence(processed_data, fit))
    /\ UNCHANGED <<processed_data, curve, gen_center, gen_logit>>
    /\ UNCHANGED pageVars
    /\ UNCHANGED dataVars

\* analysis_utils.py:372-413 the curve of a row that has snr_50 and slope
Reconstruct ==
    /\ result # None
    /\ result[1].snr_50 # None
    /\ result[1].slope # None
    /\ curve = None
    /\ curve' = Some(reconstruct_curve(result[1].snr_50[1], result[1].slope[1]))
    /\ UNCHANGED <<processed_data, result, gen_center, gen_logit>>
    /\ UNCHANGED pageVars
    /\ UNCHANGED dataVars

\* 1_Generator.py:116-120 p = logistic_p(snr, center_db=predicted_mean_db,
\* slope_pct_per_db=10.0) for every SNR of the grid
Generate ==
    /\ gen_center = None
    /\ \E c \in Centers :
          /\ gen_center' = Some(c)
          /\ gen_logit' = Some([k \in DOMAIN SNR_GRID |->
                               logistic_p_z(R(SNR_GRID[k]), c, R(10))])
    /\ UNCHANGED <<processed_data, result, curve>>
    /\ UNCHANGED pageVars
    /\ UNCHANGED dataVars

NextFit == Estimate \/ Reconstruct \/ Generate

SpecFit == InitFit /\ [][NextFit]_vars

-----------------------------------------------------------------------------
(* 4.4 Batch Analyzer *)

\* the (snr_level, correct_rate) pairs of the rows the batch fetch returns:
\* the generator's three levels, nothing heard below 5 dB
BatchPoints == {<<-5, (<<0, 1>>)>>, <<0, (<<0, 1>>)>>, <<5, (<<0, 1>>)>>, <<5, (<<1, 1>>)>>}

\* the tables the batch fetch can return, each multiset of rows once
BatchTables ==
    SortedTables({Row(s, p[1], p[2]) : s \in SentenceIds, p \in BatchPoints},
                 MaxBatchRows)

\* the fits drawn in a batch: a crossing inside both adaptive Ideal bands,
\* one on the quartile band's edge, one in the fixed Ideal band, one beyond
\* the envelope, and a flat curve
BatchFitOutcomes ==
    {f \in FitOutcomes :
        \/ f.coef = <<0, 1>>
        \/ /\ f.coef = <<2, 5>>
           /\ snr50_of(f.intercept, f.coef) \in
                 {<<-7, 1>>, <<-214, 25>>, <<1, 2>>, <<21, 2>>}}

\* the ids in ascending order
unique_ids_sorted(data, seen) ==
    SortedSeq({data[i].sentence_id : i \in DOMAIN data})

\* data['sentence_id'].unique(): in order of first appearance
RECURSIVE unique_ids(_, _)
unique_ids(data, seen) ==
    IF data = <<>> THEN seen
    ELSE unique_ids(Tail(data),
                    IF Head(data).sentence_id \in SeqRange(seen) THEN seen
                    ELSE Append(seen, Head(data).sentence_id))

\* data[data['sentence_id'] == sentence_id]
RECURSIVE rows_of(_, _)
rows_of(data, sid) ==
    IF data = <<>> THEN <<>>
    ELSE IF Head(data).sentence_id = sid
         THEN <<Head(data)>> \o rows_of(Tail(data), sid)
         ELSE rows_of(Tail(data), sid)

\* analysis_utils.py:207-223 (the score sums are left out)
summary_row(sid, sentence_data, r) ==
    [sentence_id |-> sid,
     full_sentence |-> sentence_data[1].full_sentence,
     snr_50      |-> r.snr_50[1],
     slope       |-> r.slope[1],
     validity    |-> IF r.validity = Absent THEN "N/A" ELSE r.validity,
     data_points |-> Len(sentence_data),
     snr_levels  |-> Cardinality({x.snr_level : x \in SeqRange(sentence_data)})]

\* the loop leaving at the first sentence that does not fit
RECURSIVE analyze_loop_break(_, _, _, _)
analyze_loop_break(data, ids, fits, acc) ==
    IF ids = <<>> THEN acc
    ELSE LET sid == Head(ids)
             sentence_data == rows_of(data, sid)
             r == estimate_snr50_for_sentence(sentence_data, fits[sid])
             st == Append(acc.statuses, [sentence_id |-> sid, status |-> r.status])
         IN  IF r.status = "Success"
             THEN analyze_loop_break(data, Tail(ids), fits,
                    [results |-> Append(acc.results, summary_row(sid, sentence_data, r)),
                     statuses |-> st])
             ELSE [results |-> acc.results, statuses |-> st]

\* analysis_utils.py:199-223: the loop over sentence_ids; acc.results is the
\* list `results`, acc.statuses the status each call returned
RECURSIVE analyze_loop(_, _, _, _)
analyze_loop(data, ids, fits, acc) ==
    IF ids = <<>> THEN acc
    ELSE LET sid == Head(ids)
             sentence_data == rows_of(data, sid)
             r == estimate_snr50_for_sentence(sentence_data, fits[sid])
             st == Append(acc.statuses, [sentence_id |-> sid, status |-> r.status])
         IN  analyze_loop(data, Tail(ids), fits,
                [results |-> IF r.status = "Success"
                             THEN Append(acc.results, summary_row(sid, sentence_data, r))
                             ELSE acc.results,
                 statuses |-> st])

\* analysis_utils.py:186-228 (called with non-empty data only)
analyze_all_sentences(data, fits) ==
    analyze_loop(data, unique_ids(data, <<>>), fits,
                 [results |-> <<>>, statuses |-> <<>>])

\* one fit per sentence whose rows reach model.fit
RECURSIVE FitAssignments(_, _)
FitAssignments(data, S) ==
    IF S = {} THEN {<<>>}
    ELSE LET sid == CHOOSE x \in S : TRUE
         IN  {(sid :> c) @@ f : c \in FitChoices(rows_of(data, sid), BatchFitOutcomes),
                                f \in FitAssignments(data, S \ {sid})}

-----------------------------------------------------------------------------
(* The Analyzer page: one action per script run *)

\* all_data_df.to_csv(index=False): a header line and one line of cells per row
to_csv(df) ==
    [header |-> <<"sentence_id", "snr_level", "correct_rate">>,
     lines  |-> [i \in DOMAIN df |->
                    <<df[i].sentence_id, df[i].snr_level, df[i].correct_rate>>]]

\* pd.read_csv(...)[column]
read_csv_column(csv, column) ==
    LET k == CHOOSE j \in DOMAIN csv.header : csv.header[j] = column
    IN  [i \in DOMAIN csv.lines |-> csv.lines[i][k]]

\* 2_Analyzer.py:128-129, 138-139
ranges_of(method) ==
    IF method = "IQR"
    THEN [ideal |-> <<(<<-214, 25>>), (<<-557, 100>>)>>,
          acceptable |-> <<(<<-201, 20>>), (<<-407, 100>>)>>]
    ELSE [ideal |-> <<(<<-813, 100>>), (<<-299, 50>>)>>,
          acceptable |-> <<(<<-921, 100>>), (<<-49, 10>>)>>]

Methods == {"IQR", "MSD"}

\* the relabelling without the test that keeps Extrapolated
reclassify_validity_all(row, ideal, acceptable) ==
    IF RLe(ideal[1], row.snr_50) /\ RLe(row.snr_50, ideal[2]) THEN "Ideal"
    ELSE IF RLe(acceptable[1], row.snr_50) /\ RLe(row.snr_50, acceptable[2])
    THEN "Acceptable"
    ELSE "Warning"

\* 2_Analyzer.py:142-151
reclassify_validity(row, ideal, acceptable) ==
    IF row.validity = "Extrapolated" THEN "Extrapolated"
    ELSE IF RLe(ideal[1], row.snr_50) /\ RLe(row.snr_50, ideal[2]) THEN "Ideal"
    ELSE IF RLe(acceptable[1], row.snr_50) /\ RLe(row.snr_50, acceptable[2])
    THEN "Acceptable"
    ELSE "Warning"

\* the relabelling done on the stored frame itself, not on a copy
classify_in_place(report, ideal, acceptable) ==
    LET relabelled == [i \in DOMAIN report |->
            [report[i] EXCEPT !.validity = reclassify_validity(report[i], ideal, acceptable)]]
    IN  [stored |-> relabelled, display |-> relabelled]

\* 2_Analyzer.py:154-155: display_df = analysis_results_df.copy() and its
\* validity column; `stored` is the session's frame afterwards
classify_copy(report, ideal, acceptable) ==
    [stored  |-> report,
     display |-> [i \in DOMAIN report |->
        [report[i] EXCEPT !.validity = reclassify_validity(report[i], ideal, acceptable)]]]

\* 2_Analyzer.py:79, 93: the results section is drawn
Shown(report, csv) == csv # None /\ report # None /\ report[1] # <<>>

\* 2_Analyzer.py:98-101
excluded_of(report, csv) ==
    LET all_ids == SeqRange(read_csv_column(csv, "sentence_id"))
        analyzed_ids == {report[i].sentence_id : i \in DOMAIN report}
    IN  SortedSeq(all_ids \ analyzed_ids)

\* analysis_utils.py:327-334 the parameters of create_combined_psychometric_plot
PlotParameters ==
    {"sentence_ids", "include_logistic", "include_mean", "show_legend",
     "precomputed_results", "snr_range"}

\* 2_Analyzer.py:243-252 the keyword arguments the page passes
PlotKeywords ==
    {"sentence_ids", "include_logistic", "include_mean", "show_legend",
     "precomputed_results", "snr_range", "ideal_range", "acceptable_range"}

\* Python's call: a keyword no parameter takes raises TypeError before the
\* body runs; otherwise the body returns the figure
call_outcome(keywords, parameters) ==
    IF keywords \subseteq parameters THEN "figure" ELSE "TypeError"

\* 2_Analyzer.py:79-256: what the run draws from the session state; the
\* radio keeps its selection only while it is drawn; the run ends with the
\* call of the combined plot (display_df is not empty when it is drawn)
Render(report, csv, method) ==
    /\ IF Shown(report, csv)
       THEN LET rg == ranges_of(method)
                c  == classify_copy(report[1], rg.ideal, rg.acceptable)
            IN  /\ analysis_results_df' = Some(c.stored)
                /\ display_df' = Some(c.display)
                /\ excluded_ids' = Some(excluded_of(report[1], csv[1]))
                /\ ideal_range' = Some(rg.ideal)
                /\ acceptable_range' = Some(rg.acceptable)
                /\ classification_method' = method
                /\ plot_call' = Some(call_outcome(PlotKeywords, PlotParameters))
       ELSE /\ analysis_results_df' = report
            /\ display_df' = None
            /\ excluded_ids' = None
            /\ ideal_range' = None
            /\ acceptable_range' = None
            /\ classification_method' = "IQR"
            /\ plot_call' = None

FitIdle ==
    /\ processed_data = <<>>
    /\ result = None
    /\ curve = None
    /\ gen_center = None
    /\ gen_logit = None

Init ==
    /\ db \in BatchTables
    /\ analysis_results_df = None
    /\ data_snr_range = None
    /\ temp_download_data = None
    /\ total_data_rows = None
    /\ classification_method = "IQR"
    /\ ideal_range = None
    /\ acceptable_range = None
    /\ display_df = None
    /\ excluded_ids = None
    /\ statuses = <<>>
    /\ trigger = "load"
    /\ plot_call = None
    /\ FitIdle
    /\ DataIdle

\* 2_Analyzer.py:41-66 the fetch button, then the drawing of the page
FetchAll ==
    /\ trigger' = "fetch"
    /\ IF db # <<>>
       THEN \E fits \in FitAssignments(db, SeqRange(unique_ids(db, <<>>))) :
              LET batch == analyze_all_sentences(db, fits)
                  levels == [i \in DOMAIN db |-> db[i].snr_level]
              IN  /\ total_data_rows' = Some(Len(db))
                  /\ data_snr_range' = Some(<<SeqMin(levels), SeqMax(levels)>>)
                  /\ temp_download_data' = Some(to_csv(db))
                  /\ statuses' = batch.statuses
                  /\ Render(Some(batch.results), Some(to_csv(db)), classification_method)
       ELSE /\ total_data_rows' = None
            /\ data_snr_range' = None
            /\ temp_download_data' = None
            /\ statuses' = <<>>
            /\ Render(None, None, classification_method)
    /\ UNCHANGED <<db, fitVars, dataVars>>

\* 2_Analyzer.py:71-76 the reset button, then the rerun
Reset ==
    /\ trigger' = "reset"
    /\ data_snr_range' = None
    /\ temp_download_data' = None
    /\ total_data_rows' = None
    /\ statuses' = <<>>
    /\ Render(None, None, classification_method)
    /\ UNCHANGED <<db, fitVars, dataVars>>

\* 2_Analyzer.py:112-155 another choice of the radio, then the rerun
SelectMethod ==
    /\ Shown(analysis_results_df, temp_download_data)
    /\ \E m \in Methods \ {classification_method} :
          Render(analysis_results_df, temp_download_data, m)
    /\ trigger' = "select"
    /\ UNCHANGED <<db, data_snr_range, temp_download_data, total_data_rows,
                   statuses, fitVars, dataVars>>

Next == FetchAll \/ Reset \/ SelectMethod

Spec == Init /\ [][Next]_vars

-----------------------------------------------------------------------------
(* Failures of the expansion or of the fit, for one sentence and in a batch *)

\* one sentence's rows on the generator's grid, nearly nothing heard among them
ErrorSentenceTables ==
    SortedTables({Row(1, SNR_GRID[k], r) : k \in DOMAIN SNR_GRID, r \in Rates}, MaxRows)

\* a batch whose first sentence is heard at 0 dB once in 200 keywords and
\* not at all elsewhere, and whose second sentence is heard at 5 dB
ErrorBatchTables ==
    SortedTables({Row(1, -5, <<0, 1>>), Row(1, 0, <<1, 200>>), Row(1, 5, <<0, 1>>),
                  Row(2, -5, <<0, 1>>), Row(2, 0, <<0, 1>>), Row(2, 5, <<1, 1>>)},
                 MaxBatchRows)

\* the page before either analysis: the rows of the single-sentence
\* analysis, or the table of the batch
InitErrors ==
    /\ \/ processed_data \in ErrorSentenceTables /\ db = <<>>
       \/ processed_data = <<>> /\ db \in ErrorBatchTables
    /\ result = None
    /\ curve = None
    /\ gen_center = None
    /\ gen_logit = None
    /\ SessionIdle
    /\ DataIdle

\* the single-sentence analysis on its rows, the batch on its table
NextErrors ==
    \/ processed_data # <<>> /\ Estimate
    \/ db # <<>> /\ (FetchAll \/ Reset)

SpecErrors == InitErrors /\ [][NextErrors]_vars

-----------------------------------------------------------------------------
(* analyze_all_sentences on one table in two orders of its rows *)

\* the rows of two sentences that can fit; one stored row of sentence 1
\* carries another text of the sentence
OrderRows ==
    {Row(s, p[1], p[2]) : s \in SentenceIds,
                          p \in {<<-5, (<<0, 1>>)>>, <<0, (<<0, 1>>)>>, <<5, (<<1, 1>>)>>}}
    \cup {[Row(1, 5, <<1, 1>>) EXCEPT !.full_sentence = "sentence one, revised"]}

OrderTables == SortedTables(OrderRows, MaxBatchRows)

\* the rows from the k-th on, then the first k
rotate(t, k) == [i \in DOMAIN t |-> t[((i - 1 + k) % Len(t)) + 1]]

reverse(t) == [i \in DOMAIN t |-> t[Len(t) + 1 - i]]

\* some permutations of a table: itself, its rows moved round by one and by
\* half its length, and its rows backwards
Shuffles(t) == {t, rotate(t, 1), rotate(t, Len(t) \div 2), reverse(t)}

\* the same rows in two orders; the solver's answer for each sentence, which
\* depends on the expanded sample and so on the aggregated points only
InitOrder ==
    /\ db \in OrderTables
    /\ shuffled \in Shuffles(db)
    /\ sentence_fits \in FitAssignments(db, SeqRange(unique_ids(db, <<>>)))
    /\ summaries = <<None, None>>
    /\ SelectIdle /\ PagingIdle /\ GeneratorIdle
    /\ SessionIdle
    /\ FitIdle

\* 2_Analyzer.py:55 analyze_all_sentences(all_data_df) on one of the orders
AnalyzeInOrder ==
    /\ \E k \in DOMAIN summaries :
          /\ summaries[k] = None
          /\ LET data == IF k = 1 THEN db ELSE shuffled
             IN  summaries' = [summaries EXCEPT ![k] =
                     Some(analyze_all_sentences(data, sentence_fits).results)]
    /\ UNCHANGED <<shuffled, sentence_fits, selectVars, pagingVars, generatorVars,
                   pageVars, fitVars>>

NextOrder == AnalyzeInOrder

SpecOrder == InitOrder /\ [][NextOrder]_vars

-----------------------------------------------------------------------------
(* 4.6 Data access: get_all_sentence_data (modules/analysis_utils.py:39-113) *)

\* the most rows of score_qsin the table holds
MaxStored == 2

\* the most rows one filter matches in the paging runs
MaxMatching == 2001

TEMP_USER_ID == "61720be3-19c6-4383-8563-85a6f2d4e795"

page_size == 1000

\* strings that are taken apart are sequences of characters
DummyPattern == <<"d", "u", "m", "m", "y", "_", "%">>

DummyPrefix == <<"d", "u", "m", "m", "y", "_">>

\* the session ids of the stored reports: the generator's default form, one
\* typed with a capital and a hyphen, a clinic's session
SessionIds ==
    {<<"d", "u", "m", "m", "y", "_", "1">>,
     <<"D", "u", "m", "m", "y", "-", "1">>,
     <<"s", "_", "1">>}

\* the user ids of the stored reports
UserIds == {TEMP_USER_ID, "tester-1"}

\* str.lower on the letters the session ids use
lower(c) == IF c = "D" THEN "d" ELSE c

\* SQL LIKE: _ matches one character, % any run of characters
RECURSIVE like(_, _)
like(s, pattern) ==
    IF pattern = <<>> THEN s = <<>>
    ELSE IF Head(pattern) = "%"
    THEN like(s, Tail(pattern)) \/ (s # <<>> /\ like(Tail(s), pattern))
    ELSE /\ s # <<>>
         /\ Head(pattern) = "_" \/ Head(pattern) = Head(s)
         /\ like(Tail(s), Tail(pattern))

\* SQL ILIKE on a nullable column: NULL (None) when the column is NULL
ilike(column, pattern) ==
    IF column = None THEN None
    ELSE Some(like([i \in DOMAIN column[1] |-> lower(column[1][i])],
                   [i \in DOMAIN pattern |-> lower(pattern[i])]))

\* SQL = on a nullable column
eq(column, value) == IF column = None THEN None ELSE Some(column[1] = value)

\* SQL NOT: NULL stays NULL
sql_not(b) == IF b = None THEN None ELSE Some(~b[1])

\* WHERE keeps the rows whose condition is true, not false and not NULL
holds(b) == b # None /\ b[1]

\* analysis_utils.py:81 q.ilike('test_reports_qsin.session_id', 'dummy_%')
dummy_session_filter(row) ==
    holds(ilike(row.test_reports_qsin.session_id, DummyPattern))

\* analysis_utils.py:85 q.eq('test_reports_qsin.user_id', TEMP_USER_ID)
temp_user_filter(row) ==
    holds(eq(row.test_reports_qsin.user_id, TEMP_USER_ID))

\* analysis_utils.py:99-100 q.not_.ilike(...).neq(...): both conditions
production_filter(row) ==
    /\ holds(sql_not(ilike(row.test_reports_qsin.session_id, DummyPattern)))
    /\ holds(sql_not(eq(row.test_reports_qsin.user_id, TEMP_USER_ID)))

\* query.range(start_index, end_index) on n matching rows in the order of
\* the query: the positions lo..hi of the rows of the page (none when hi < lo)
range_rows(n, start_index, end_index) ==
    [lo |-> start_index + 1,
     hi |-> IF end_index + 1 < n THEN end_index + 1 ELSE n]

page_len(rows) == IF rows.hi < rows.lo THEN 0 ELSE rows.hi - rows.lo + 1

\* the loop that goes on after a short page
fetch_step_no_short_stop(n, st) ==
    LET start_index == st.page * page_size
        end_index   == start_index + page_size - 1
        rows        == range_rows(n, start_index, end_index)
    IN  IF page_len(rows) = 0
        THEN [st EXCEPT !.requests = @ + 1, !.pc = "done"]
        ELSE [st EXCEPT !.requests = @ + 1, !.all_rows = Append(@, rows),
                        !.page = @ + 1]

\* analysis_utils.py:55-74 one pass of the while loop of
\* fetch_all_with_filter over n matching rows
fetch_step(n, st) ==
    LET start_index == st.page * page_size
        end_index   == start_index + page_size - 1
        rows        == range_rows(n, start_index, end_index)
    IN  IF page_len(rows) = 0
        THEN [st EXCEPT !.requests = @ + 1, !.pc = "done"]
        ELSE IF page_len(rows) < page_size
        THEN [st EXCEPT !.requests = @ + 1, !.all_rows = Append(@, rows),
                        !.pc = "done"]
        ELSE [st EXCEPT !.requests = @ + 1, !.all_rows = Append(@, rows),
                        !.page = @ + 1]

\* analysis_utils.py:53-54 all_rows = [], page = 0
fetch_start == [page |-> 0, all_rows |-> <<>>, requests |-> 0, pc |-> "loop"]

RECURSIVE fetch_run(_, _)
fetch_run(n, st) == IF st.pc = "done" THEN st ELSE fetch_run(n, fetch_step(n, st))

\* the rows at the positions of the pages, page after page
RECURSIVE rows_at(_, _)
rows_at(rows, pages) ==
    IF pages = <<>> THEN <<>>
    ELSE SubSeq(rows, Head(pages).lo, Head(pages).hi) \o rows_at(rows, Tail(pages))

\* analysis_utils.py:52-76 on `rows`, the rows of the table that the query
\* with apply_filter_fn matches, in the order of the query
fetch_all_with_filter(rows) ==
    rows_at(rows, fetch_run(Len(rows), fetch_start).all_rows)

\* analysis_utils.py:90
dedup_key(row) ==
    <<row.index, row.test_reports_qsin.session_id, row.test_reports_qsin.snr_level>>

\* analysis_utils.py:87-93 the rows of r1 + r2 whose key is new, in order
RECURSIVE dedup(_, _)
dedup(rows, kept) ==
    IF rows = <<>> THEN kept
    ELSE IF \E i \in DOMAIN kept : dedup_key(kept[i]) = dedup_key(Head(rows))
         THEN dedup(Tail(rows), kept)
         ELSE dedup(Tail(rows), Append(kept, Head(rows)))

\* analysis_utils.py:10-37: the records that have an snr_level, then the rows
\* with at least one keyword, with their correct_rate
_process_raw_data(data) ==
    LET records == SelectSeq(data, LAMBDA item :
                       item.test_reports_qsin.snr_level # None)
        kept    == SelectSeq(records, LAMBDA item : item.sentences > 0)
    IN  [i \in DOMAIN kept |->
            [session_id   |-> kept[i].test_reports_qsin.session_id,
             user_id      |-> kept[i].test_reports_qsin.user_id,
             sentence_id  |-> kept[i].index,
             snr_level    |-> kept[i].test_reports_qsin.snr_level[1],
             correct_rate |-> Rat(kept[i].total_score, kept[i].sentences)]]

\* analysis_utils.py:78-101 all_records
all_records_of(table, use_dummy_prefix) ==
    IF use_dummy_prefix
    THEN LET r1 == fetch_all_with_filter(SelectSeq(table, dummy_session_filter))
             r2 == fetch_all_with_filter(SelectSeq(table, temp_user_filter))
         IN  dedup(r1 \o r2, <<>>)
    ELSE fetch_all_with_filter(SelectSeq(table, production_filter))

\* analysis_utils.py:39-113 with sentence_id None, no request failing:
\* all_records as merged, and the frame returned
get_all_sentence_data(table, use_dummy_prefix) ==
    LET all_records == all_records_of(table, use_dummy_prefix)
    IN  [all_records |-> all_records, df |-> _process_raw_data(all_records)]

\* the members of a set in some order
RECURSIVE SeqOfSet(_)
SeqOfSet(S) ==
    IF S = {} THEN <<>>
    ELSE LET x == CHOOSE y \in S : TRUE
         IN  <<x>> \o SeqOfSet(S \ {x})

\* a stored row of score_qsin with the report it belongs to; sentences is
\* the length of the keyword list
StoredRow(session, user, snr, keywords) ==
    [index |-> 1, sentences |-> keywords, total_score |-> keywords,
     test_reports_qsin |-> [snr_level |-> snr, session_id |-> session,
                            user_id |-> user]]

\* the kinds of stored rows: every session and user, NULL ones too; a row
\* whose report has no snr_level; a row without keywords
StoreKinds ==
    LET sessions == SeqOfSet({Some(s) : s \in SessionIds} \cup {None})
        users    == SeqOfSet({Some(u) : u \in UserIds} \cup {None})
        shapes   == <<(<<Some(0), 1>>), (<<None, 1>>), (<<Some(0), 0>>)>>
        ns       == Len(sessions)
        nu       == Len(users)
        nh       == Len(shapes)
    IN  [k \in 1..(ns * nu * nh) |->
            StoredRow(sessions[((k - 1) \div (nu * nh)) + 1],
                      users[(((k - 1) \div nh) % nu) + 1],
                      shapes[((k - 1) % nh) + 1][1],
                      shapes[((k - 1) % nh) + 1][2])]

\* the non-decreasing lists of at most n numbers of 1..k
RECURSIVE Ascending(_, _)
Ascending(n, k) ==
    IF n = 0 THEN {<<>>}
    ELSE LET prev == Ascending(n - 1, k)
         IN  prev \cup
             {Append(p[1], p[2]) : p \in
                {q \in {t \in prev : Len(t) = n - 1} \X (1..k) :
                    Len(q[1]) = 0 \/ q[1][Len(q[1])] <= q[2]}}

\* the tables, each multiset of rows once
StoreTables ==
    {[i \in DOMAIN t |-> StoreKinds[t[i]]] : t \in Ascending(MaxStored, Len(StoreKinds))}

InitSelect ==
    /\ store \in StoreTables
    /\ selection = [m \in BOOLEAN |-> None]
    /\ PagingIdle /\ GeneratorIdle /\ OrderIdle
    /\ PageIdle
    /\ FitIdle

\* 2_Analyzer.py:44 / 281 get_all_sentence_data(supabase, use_dummy_prefix)
GetAll ==
    /\ \E use_dummy_prefix \in BOOLEAN :
          /\ selection[use_dummy_prefix] = None
          /\ selection' = [selection EXCEPT ![use_dummy_prefix] =
                              Some(get_all_sentence_data(store, use_dummy_prefix))]
    /\ UNCHANGED <<store, pagingVars, generatorVars, orderVars, pageVars, fitVars>>

NextSelect == GetAll

SpecSelect == InitSelect /\ [][NextSelect]_vars

-----------------------------------------------------------------------------
(* fetch_all_with_filter request by request (modules/analysis_utils.py:52-76) *)

\* the call starts on a filter that matches `matching` rows of a table
\* nobody writes to meanwhile
InitPages ==
    /\ matching \in 0..MaxMatching
    /\ page = fetch_start.page
    /\ all_rows = fetch_start.all_rows
    /\ requests = fetch_start.requests
    /\ fetch_pc = fetch_start.pc
    /\ SelectIdle /\ GeneratorIdle /\ OrderIdle
    /\ PageIdle
    /\ FitIdle

\* analysis_utils.py:55-74 one pass of the loop: the request and what
\* follows from the page it returns
RequestPage ==
    /\ fetch_pc = "loop"
    /\ LET st == fetch_step(matching, [page |-> page, all_rows |-> all_rows,
                                       requests |-> requests, pc |-> fetch_pc])
       IN  /\ page' = st.page
           /\ all_rows' = st.all_rows
           /\ requests' = st.requests
           /\ fetch_pc' = st.pc
    /\ UNCHANGED <<matching, selectVars, generatorVars, orderVars, pageVars, fitVars>>

NextPages == RequestPage

\* the loop is sequential code: while it has not left, its next pass runs
SpecPages == InitPages /\ [][NextPages]_vars /\ WF_vars(RequestPage)

-----------------------------------------------------------------------------
(* The fetch button's run when it does not reach its end *)

\* 2_Analyzer.py:44-55 the run of the fetch button ended while
\* analyze_all_sentences was running: Streamlit ends a run at its next call
\* (st.spinner, st.progress) when a widget is used meanwhile, and an
\* exception out of the analysis ends it too.  Lines 46-52 have run, lines
\* 55 and 58 have not; the next run draws the page from the session.
FetchStopped ==
    /\ db # <<>>
    /\ trigger' = "fetch"
    /\ LET levels == [i \in DOMAIN db |-> db[i].snr_level]
       IN  /\ total_data_rows' = Some(Len(db))
           /\ data_snr_range' = Some(<<SeqMin(levels), SeqMax(levels)>>)
    /\ Render(analysis_results_df, temp_download_data, classification_method)
    /\ UNCHANGED <<db, temp_download_data, statuses, fitVars, dataVars>>

NextSession == FetchAll \/ FetchStopped \/ Reset

SpecSession == Init /\ [][NextSession]_vars

-----------------------------------------------------------------------------
(* The Generator page's submission (pages/1_Generator.py:81-157) *)

\* the most sentences the sentence bank holds
MaxBank == 6

\* what supabase.rpc(...).execute() can do for one report: return the new
\* report's id, return nothing usable, raise
RpcOutcomes == {"created", "no response", "raised"}

InitGenerator ==
    /\ bank \in 1..MaxBank
    /\ grid_pos = 0
    /\ created_ids = <<>>
    /\ total_records = 0
    /\ page_message = None
    /\ SelectIdle /\ PagingIdle /\ OrderIdle
    /\ PageIdle
    /\ FitIdle

\* 1_Generator.py:83-86 no tester or no patient selected
SubmitUnselected ==
    /\ grid_pos = 0
    /\ page_message = None
    /\ page_message' = Some([kind |-> "warning", reports |-> 0, scores |-> 0])
    /\ UNCHANGED <<bank, grid_pos, created_ids, total_records>>
    /\ UNCHANGED <<selectVars, pagingVars, orderVars, pageVars, fitVars>>

\* 1_Generator.py:116-149 one pass of the loop over SNR_GRID: the payload of
\* len(sentences_data) scores, the call, and the bookkeeping of its outcome
CallRpc ==
    /\ page_message = None
    /\ grid_pos < Len(SNR_GRID)
    /\ grid_pos' = grid_pos + 1
    /\ \E outcome \in RpcOutcomes :
          IF outcome = "created"
          THEN /\ created_ids' = Append(created_ids, grid_pos + 1)
               /\ total_records' = total_records + bank
          ELSE UNCHANGED <<created_ids, total_records>>
    /\ UNCHANGED <<bank, page_message>>
    /\ UNCHANGED <<selectVars, pagingVars, orderVars, pageVars, fitVars>>

\* 1_Generator.py:151-157 after the loop
ShowMessage ==
    /\ page_message = None
    /\ grid_pos = Len(SNR_GRID)
    /\ page_message' =
          IF created_ids # <<>>
          THEN Some([kind |-> "success", reports |-> Len(SNR_GRID),
                     scores |-> total_records])
          ELSE Some([kind |-> "error", reports |-> 0, scores |-> 0])
    /\ UNCHANGED <<bank, grid_pos, created_ids, total_records>>
    /\ UNCHANGED <<selectVars, pagingVars, orderVars, pageVars, fitVars>>

NextGenerator == SubmitUnselected \/ CallRpc \/ ShowMessage

SpecGenerator == InitGenerator /\ [][NextGenerator]_vars

-----------------------------------------------------------------------------
(* Properties of the fitter, under SpecFit *)

\* what the properties read off the input, independently of the fitter
InputLevels == {processed_data[i].snr_level : i \in DOMAIN processed_data}

InputMean(level) == MeanRate(processed_data, level)

InputMeansDiffer ==
    \E l1 \in InputLevels : \E l2 \in InputLevels : InputMean(l1) # InputMean(l2)

Returned == result # None

res == result[1]

\* plot_data holds one point per distinct level of the input, with its mean
CarriesAggregatedPoints ==
    /\ Len(res.plot_data) = Cardinality(InputLevels)
    /\ {p.snr_level : p \in SeqRange(res.plot_data)} = InputLevels
    /\ \A p \in SeqRange(res.plot_data) : p.correct_rate = InputMean(p.snr_level)

\* C1: an input that covers fewer than 3 distinct snr_level values (0, 1 or
\* 2, whatever its rates) gives 'Error: Not Enough Data Points' with snr_50
\* and slope absent and the aggregated points in plot_data; with exactly 3
\* distinct levels and non-identical means that status is not returned and
\* the fit is attempted (the result is the fit's: Success, Zero Slope or the
\* error the fit raised).
C1_InsufficientData ==
    Returned =>
        /\ Cardinality(InputLevels) < 3 =>
              /\ res.status = "Error: Not Enough Data Points"
              /\ res.snr_50 = None
              /\ res.slope = None
              /\ CarriesAggregatedPoints
        /\ (Cardinality(InputLevels) = 3 /\ InputMeansDiffer) =>
              /\ res.status # "Error: Not Enough Data Points"
              /\ res.status # "Error: All Same Results"

C1_Witness ==
    /\ Returned
    /\ Cardinality(InputLevels) = 2
    /\ InputMeansDiffer
    /\ res.status = "Error: Not Enough Data Points"
    /\ Len(res.plot_data) = 2

\* C2: at least 3 distinct levels whose per-level means are all equal give
\* 'Error: All Same Results' with snr_50 and slope absent and no model.
C2_DegenerateData ==
    (Returned /\ Cardinality(InputLevels) >= 3 /\ ~InputMeansDiffer) =>
        /\ res.status = "Error: All Same Results"
        /\ res.snr_50 = None
        /\ res.slope = None
        /\ res.model = None

C2_Witness ==
    /\ Returned
    /\ Cardinality(InputLevels) >= 3
    /\ ~InputMeansDiffer
    /\ res.status = "Error: All Same Results"

\* C3: snr_50 and slope are both present exactly when status is 'Success';
\* in every other outcome both are absent; the zero-slope outcome is the one
\* with |coef| < 1e-6 and still returns the fitted model.
C3_NumbersOnlyOnSuccess ==
    Returned =>
        /\ res.status = "Success" <=> (res.snr_50 # None /\ res.slope # None)
        /\ res.status # "Success" => (res.snr_50 = None /\ res.slope = None)
        /\ res.status = "Error: Zero Slope" =>
              /\ res.model # None
              /\ RLt(RAbs(res.model[1].coef), <<1, 1000000>>)
        /\ (res.model # None /\ RLt(RAbs(res.model[1].coef), <<1, 1000000>>)) =>
              res.status = "Error: Zero Slope"

C3_Witness ==
    /\ Returned
    /\ res.status = "Error: Zero Slope"
    /\ res.model # None
    /\ res.model[1].coef # <<0, 1>>
    /\ res.snr_50 = None

FitLabels == {"Ideal", "Acceptable", "Warning", "Extrapolated"}

\* C4 as stated: a validity value is present only when status is 'Success',
\* is then one of Ideal, Acceptable, Warning, Extrapolated, and no
\* non-Success result carries a validity value.
C4_ValidityOnlyOnSuccess ==
    Returned =>
        /\ res.validity # Absent => (res.status = "Success" /\ res.validity \in FitLabels)
        /\ res.status # "Success" => res.validity = Absent

IsFitFailure(status) ==
    status \notin {"Success", "Error: Not Enough Data Points",
                   "Error: All Same Results", "Error: Zero Slope"}

\* C4 amended: a Success result carries one of the four labels; the
\* insufficient-data, degenerate-data and zero-slope results carry no
\* validity value; the result of a fit that raised carries 'Error'.
C4_ValidityLabels ==
    Returned =>
        /\ res.status = "Success" <=> res.validity \in FitLabels
        /\ res.status \in {"Error: Not Enough Data Points",
                           "Error: All Same Results", "Error: Zero Slope"}
              => res.validity = Absent
        /\ IsFitFailure(res.status) <=> res.validity = "Error"

C4_Witness ==
    /\ Returned
    /\ IsFitFailure(res.status)
    /\ res.validity = "Error"
    /\ Cardinality(InputLevels) >= 3
    /\ InputMeansDiffer

SnrMinIn == CHOOSE l \in InputLevels : \A m \in InputLevels : l <= m

SnrMaxIn == CHOOSE l \in InputLevels : \A m \in InputLevels : m <= l

Within(x, lo, hi) == RLe(lo, x) /\ RLe(x, hi)

C10_RoundTrip ==
    /\ (Returned /\ res.status = "Success" /\ curve # None) =>
          /\ curve[1].coef = res.model[1].coef
          /\ curve[1].a = res.model[1].intercept
          /\ ProbIsHalf(logit(curve[1].a, curve[1].coef, res.snr_50[1]))
    /\ gen_logit # None =>
          \A k \in DOMAIN SNR_GRID :
              R(SNR_GRID[k]) = gen_center[1] <=> ProbIsHalf(gen_logit[1][k])

C10_Witness ==
    /\ Returned
    /\ res.status = "Success"
    /\ curve # None
    /\ res.model[1].coef = <<-2, 5>>
    /\ gen_logit # None
    /\ gen_center = Some(<<0, 1>>)

-----------------------------------------------------------------------------
(* Properties of the batch analyzer and of the page, under Spec *)

DbIds == {db[i].sentence_id : i \in DOMAIN db}

Fetched == temp_download_data # None

StatusOf(sid) ==
    (CHOOSE e \in SeqRange(statuses) : e.sentence_id = sid).status

SucceededIds == {sid \in DbIds : StatusOf(sid) = "Success"}

ReportIds == {analysis_results_df[1][i].sentence_id : i \in DOMAIN analysis_results_df[1]}

NoDuplicates(s) == \A i \in DOMAIN s : \A j \in DOMAIN s : s[i] = s[j] => i = j

\* C6: the batch fits every distinct sentence_id of the table, whatever the
\* outcome of the others, and the report holds exactly one row for each
\* sentence_id whose status is Success and none for any other; the
\* excluded ids the page computes are the ids of the fetched data minus the
\* analyzed ones, so report rows + excluded ids = distinct ids.
C6_BatchAccounting ==
    Fetched =>
        /\ {e.sentence_id : e \in SeqRange(statuses)} = DbIds
        /\ Len(statuses) = Cardinality(DbIds)
        /\ ReportIds = SucceededIds
        /\ Len(analysis_results_df[1]) = Cardinality(SucceededIds)
        /\ excluded_ids # None =>
              /\ SeqRange(excluded_ids[1]) = DbIds \ ReportIds
              /\ NoDuplicates(excluded_ids[1])
              /\ Len(analysis_results_df[1]) + Len(excluded_ids[1]) = Cardinality(DbIds)

\* the first sentence fails, the second fits: one row, one excluded id
C6_Witness ==
    /\ Fetched
    /\ Len(statuses) = 2
    /\ statuses[1].status # "Success"
    /\ statuses[2].status = "Success"
    /\ Len(analysis_results_df[1]) = 1
    /\ excluded_ids = Some(<<statuses[1].sentence_id>>)

\* C7: under either scheme, and after any sequence of selections, the
\* classifier labels a row Extrapolated exactly when its fitted validity is
\* Extrapolated.
C7_ExtrapolatedKept ==
    display_df # None =>
        /\ DOMAIN display_df[1] = DOMAIN analysis_results_df[1]
        /\ \A i \in DOMAIN display_df[1] :
              display_df[1][i].validity = "Extrapolated"
                  <=> analysis_results_df[1][i].validity = "Extrapolated"

C7_Witness ==
    /\ display_df # None
    /\ trigger = "select"
    /\ classification_method = "IQR"
    /\ \E i \in DOMAIN display_df[1] :
          /\ analysis_results_df[1][i].validity = "Extrapolated"
          /\ display_df[1][i].validity = "Extrapolated"
    /\ \E i \in DOMAIN display_df[1] :
          /\ analysis_results_df[1][i].validity = "Warning"
          /\ display_df[1][i].validity = "Ideal"

\* the label the scheme gives a stored row
LabelUnder(row, method) ==
    LET ideal == IF method = "IQR" THEN <<(<<-214, 25>>), (<<-557, 100>>)>>
                 ELSE <<(<<-813, 100>>), (<<-299, 50>>)>>
        acc   == IF method = "IQR" THEN <<(<<-201, 20>>), (<<-407, 100>>)>>
                 ELSE <<(<<-921, 100>>), (<<-49, 10>>)>>
    IN  IF row.validity = "Extrapolated" THEN "Extrapolated"
        ELSE IF Within(row.snr_50, ideal[1], ideal[2]) THEN "Ideal"
        ELSE IF Within(row.snr_50, acc[1], acc[2]) THEN "Acceptable"
        ELSE "Warning"

\* the stored report is as the batch produced it: every row carries the
\* label the fitter gives its snr_50 over the levels of its sentence
StoredIsFitted ==
    analysis_results_df # None =>
        \A i \in DOMAIN analysis_results_df[1] :
            LET row == analysis_results_df[1][i]
                lv  == {db[k].snr_level : k \in {j \in DOMAIN db :
                                            db[j].sentence_id = row.sentence_id}}
                lo  == CHOOSE l \in lv : \A m \in lv : l <= m
                hi  == CHOOSE l \in lv : \A m \in lv : m <= l
            IN  row.validity = fit_validity(row.snr_50, lo, hi)

\* C8: classifying leaves the stored report as the batch produced it and
\* changes only the validity column of the copy; the labels shown depend
\* only on the stored report and the scheme; switching the scheme changes
\* neither the stored report nor the batch's fits.
C8_ClassifierFrame ==
    /\ []StoredIsFitted
    /\ [](display_df # None =>
            /\ DOMAIN display_df[1] = DOMAIN analysis_results_df[1]
            /\ \A i \in DOMAIN display_df[1] :
                  /\ display_df[1][i] =
                        [analysis_results_df[1][i] EXCEPT
                            !.validity = display_df[1][i].validity]
                  /\ display_df[1][i].validity =
                        LabelUnder(analysis_results_df[1][i], classification_method))
    /\ [][trigger' = "select" =>
            /\ analysis_results_df' = analysis_results_df
            /\ statuses' = statuses
            /\ temp_download_data' = temp_download_data]_vars

\* back to the first scheme after a switch, with a row both schemes relabel
C8_Witness ==
    /\ trigger = "select"
    /\ classification_method = "MSD"
    /\ display_df # None
    /\ \E i \in DOMAIN display_df[1] :
          /\ analysis_results_df[1][i].validity = "Warning"
          /\ analysis_results_df[1][i].snr_50 = <<-214, 25>>
          /\ display_df[1][i].validity = "Acceptable"

\* sorted(values), by insertion
RECURSIVE InsertSorted(_, _)
InsertSorted(xs, v) ==
    IF xs = <<>> THEN <<v>>
    ELSE IF RLe(v, Head(xs)) THEN <<v>> \o xs
    ELSE <<Head(xs)>> \o InsertSorted(Tail(xs), v)

RECURSIVE SortRats(_)
SortRats(xs) ==
    IF xs = <<>> THEN <<>> ELSE InsertSorted(SortRats(Tail(xs)), Head(xs))

\* the k-th quartile of the values, interpolated linearly between the two
\* nearest ranks (the default of Series.quantile)
Quartile(values, k) ==
    LET xs   == SortRats(values)
        n    == Len(xs)
        pos  == (n - 1) * k
        lo   == pos \div 4 + 1
        hi   == IF lo < n THEN lo + 1 ELSE lo
    IN  RAdd(xs[lo], RMul(<<pos % 4, 4>>, RSub(xs[hi], xs[lo])))

RECURSIVE SumRats(_)
SumRats(xs) == IF xs = <<>> THEN R(0) ELSE RAdd(Head(xs), SumRats(Tail(xs)))

Midpoint(range) == RDiv(RAdd(range[1], range[2]), R(2))

BatchSnr50 == [i \in DOMAIN analysis_results_df[1] |-> analysis_results_df[1][i].snr_50]

\* C9: the adaptive ranges come from the snr_50 values of the report on
\* show: for the quartile scheme Ideal = [Q1, Q3] and Acceptable =
\* [Q1 - 0.5 IQR, Q3 + 0.5 IQR]; for the mean/sigma scheme both ranges are
\* centred on the batch's mean and Acceptable is twice as wide as Ideal.
C9_AdaptiveRanges ==
    ideal_range # None =>
        LET q1   == Quartile(BatchSnr50, 1)
            q3   == Quartile(BatchSnr50, 3)
            half == RDiv(RSub(q3, q1), R(2))
            mean == RDiv(SumRats(BatchSnr50), R(Len(BatchSnr50)))
        IN  IF classification_method = "IQR"
            THEN /\ ideal_range[1] = <<q1, q3>>
                 /\ acceptable_range[1] = <<RSub(q1, half), RAdd(q3, half)>>
            ELSE /\ Midpoint(ideal_range[1]) = mean
                 /\ Midpoint(acceptable_range[1]) = mean
                 /\ RSub(acceptable_range[1][2], acceptable_range[1][1]) =
                       RMul(R(2), RSub(ideal_range[1][2], ideal_range[1][1]))

-----------------------------------------------------------------------------
(* Properties of the data access, under SpecSelect *)

\* str.startswith
starts_with(s, prefix) ==
    Len(s) >= Len(prefix) /\ SubSeq(s, 1, Len(prefix)) = prefix

HasDummyPrefix(session_id) ==
    session_id # None /\ starts_with(session_id[1], DummyPrefix)

\* what a call returned
Selected(mode) == selection[mode][1]

\* a stored row that _process_raw_data keeps
Usable(row) == row.test_reports_qsin.snr_level # None /\ row.sentences > 0

\* the number of members of a sequence that satisfy P
CountIf(s, P(_)) == Cardinality({i \in DOMAIN s : P(s[i])})

\* C11: with the checkbox checked get_all_sentence_data returns only rows
\* whose session_id starts with 'dummy_'; with it unchecked it returns the
\* other rows, those whose session_id does not start with 'dummy_'.
C11_CheckboxSelectsByPrefix ==
    /\ selection[TRUE] # None =>
          \A i \in DOMAIN Selected(TRUE).df :
              HasDummyPrefix(Selected(TRUE).df[i].session_id)
    /\ selection[FALSE] # None =>
          /\ \A i \in DOMAIN Selected(FALSE).df :
                 ~HasDummyPrefix(Selected(FALSE).df[i].session_id)
          /\ Len(Selected(FALSE).df) =
                 CountIf(store, LAMBDA row :
                     Usable(row) /\ ~HasDummyPrefix(row.test_reports_qsin.session_id))

-----------------------------------------------------------------------------
(* Properties of failing fits, under SpecErrors *)

\* the statuses the code builds that begin with 'Error'
ErrorStatuses ==
    {"Error: Not Enough Data Points", "Error: All Same Results", "Error: Zero Slope",
     "Error: Found input variables with inconsistent numbers of samples",
     "Error: This solver needs samples of at least 2 classes in the data"}

\* rows with three levels or more and differing means, all of whose means
\* round to 0 successes in 100 or all to 100: the fit raises on them
RaisesOn(data) ==
    LET levels == {data[i].snr_level : i \in DOMAIN data}
    IN  /\ Cardinality(levels) >= 3
        /\ \E l, m \in levels : MeanRate(data, l) # MeanRate(data, m)
        /\ \/ \A l \in levels : RLe(MeanRate(data, l), <<1, 200>>)
           \/ \A l \in levels : RLe(<<199, 200>>, MeanRate(data, l))

-----------------------------------------------------------------------------
(* Properties of the paging, under SpecPages *)

\* the pages fetched so far are full pages that follow one another from the
\* first matching row on
FullPagesInOrder(pages) ==
    \A k \in DOMAIN pages :
        /\ pages[k].lo = (k - 1) * page_size + 1
        /\ k < Len(pages) => pages[k].hi = k * page_size

\* the pages hold the rows 1..n in order, each once
HoldsEachRowOnce(pages, n) ==
    /\ FullPagesInOrder(pages)
    /\ n = 0 <=> pages = <<>>
    /\ n > 0 => /\ pages[Len(pages)].hi = n
                /\ pages[Len(pages)].lo <= n

PagingSafe ==
    /\ fetch_pc = "loop" =>
          /\ FullPagesInOrder(all_rows)
          /\ requests = Len(all_rows) /\ page = requests
          /\ all_rows # <<>> => all_rows[Len(all_rows)].hi = Len(all_rows) * page_size
    /\ fetch_pc = "done" =>
          /\ HoldsEachRowOnce(all_rows, matching)
          /\ requests = (matching \div page_size) + 1
          /\ matching = 0 => requests = 1
          /\ (matching > 0 /\ matching % page_size = 0) =>
                 requests = Len(all_rows) + 1
          /\ matching % page_size # 0 => requests = Len(all_rows)

\* C13: on n matching rows fetch_all_with_filter ends after finitely many
\* requests of 1000 rows and returns the n rows, each once, in the order of
\* the query; it stops at the first page that is empty or shorter than 1000,
\* so a positive multiple of 1000 costs one more, empty, request and n = 0
\* costs one request.
C13_PagingTerminates == []PagingSafe /\ <>(fetch_pc = "done")

C13_Witness ==
    /\ fetch_pc = "done"
    /\ matching = 2 * page_size
    /\ requests = 3
    /\ Len(all_rows) = 2

-----------------------------------------------------------------------------
(* Properties of the trial expansion, under SpecFit *)

\* the call got as far as the expansion of the aggregated points
ExpansionReached ==
    /\ Returned
    /\ Len(res.plot_data) >= 3
    /\ \E j, k \in DOMAIN res.plot_data :
          res.plot_data[j].correct_rate # res.plot_data[k].correct_rate

\* n is an integer nearest to x, the even one of the two when x is a tie
NearestTieEven(n, x) ==
    LET d == RAbs(RSub(R(n), x))
    IN  /\ RLe(d, <<1, 2>>)
        /\ d = <<1, 2>> => n % 2 = 0

\* C14: every aggregated point with a rate r in [0, 1] expands to exactly
\* 100 binary trials, round(r * 100) successes (Python's round, so a count
\* in 0..100) and the rest failures; X and y have the same length, 100 times
\* the number of points; the expansion depends on the points alone.
C14_TrialExpansion ==
    ExpansionReached =>
        LET y == y_resampled(res.plot_data)
        IN  /\ DOMAIN y = DOMAIN res.plot_data
            /\ \A k \in DOMAIN y :
                   LET r == res.plot_data[k].correct_rate
                   IN  (RLe(R(0), r) /\ RLe(r, R(1))) =>
                          /\ y[k].ones \in 0..100
                          /\ y[k].zeros = 100 - y[k].ones
                          /\ NearestTieEven(y[k].ones, RMul(r, R(100)))
            /\ SumField(y, "ones") + SumField(y, "zeros") = 100 * Len(res.plot_data)
            /\ X_resampled_len(res.plot_data) = 100 * Len(res.plot_data)
            /\ res.status # "Error: Found input variables with inconsistent numbers of samples"
            /\ res.status = "Error: This solver needs samples of at least 2 classes in the data"
                  <=> \/ \A k \in DOMAIN y :
                             RLe(res.plot_data[k].correct_rate, <<1, 200>>)
                      \/ \A k \in DOMAIN y :
                             RLe(<<199, 200>>, res.plot_data[k].correct_rate)

\* a tie (0.5 success in 100), a full count and an empty one, and a fit
C14_Witness ==
    /\ ExpansionReached
    /\ res.status = "Success"
    /\ \E k \in DOMAIN res.plot_data :
          /\ res.plot_data[k].correct_rate = <<1, 200>>
          /\ y_resampled(res.plot_data)[k] = [ones |-> 0, zeros |-> 100]
    /\ \E k \in DOMAIN res.plot_data :
          y_resampled(res.plot_data)[k] = [ones |-> 100, zeros |-> 0]

-----------------------------------------------------------------------------
(* Properties of the batch in two orders, under SpecOrder *)

BothAnalyzed == summaries # <<>> /\ summaries[1] # None /\ summaries[2] # None

\* where a sentence_id first appears among the rows
FirstPosition(data, sid) ==
    CHOOSE i \in DOMAIN data :
        data[i].sentence_id = sid /\ \A j \in 1..(i - 1) : data[j].sentence_id # sid

\* the rows of a report follow the first appearance of their sentences
InOrderOfAppearance(report, data) ==
    \A i, j \in DOMAIN report :
        i < j => FirstPosition(data, report[i].sentence_id)
                    < FirstPosition(data, report[j].sentence_id)

\* a summary row without its text
Numbers(row) ==
    [sentence_id |-> row.sentence_id, snr_50 |-> row.snr_50, slope |-> row.slope,
     validity |-> row.validity, data_points |-> row.data_points,
     snr_levels |-> row.snr_levels]

\* C15: the summary rows of analyze_all_sentences are the same set for
\* every permutation of the input rows, and the output rows are ordered by
\* the first appearance of each sentence_id in the input.
C15_PermutationInvariant ==
    BothAnalyzed =>
        /\ SeqRange(summaries[1][1]) = SeqRange(summaries[2][1])
        /\ InOrderOfAppearance(summaries[1][1], db)
        /\ InOrderOfAppearance(summaries[2][1], shuffled)

\* C15 amended: but for full_sentence the summary rows are the same set for
\* every permutation of the input rows; full_sentence is the text of the
\* first input row of the sentence; the output rows are ordered by the first
\* appearance of each sentence_id in the input.
C15_PermutationInvariantButText ==
    BothAnalyzed =>
        /\ {Numbers(row) : row \in SeqRange(summaries[1][1])}
              = {Numbers(row) : row \in SeqRange(summaries[2][1])}
        /\ Len(summaries[1][1]) = Len(summaries[2][1])
        /\ NoDuplicates([i \in DOMAIN summaries[1][1] |-> summaries[1][1][i].sentence_id])
        /\ \A row \in SeqRange(summaries[1][1]) :
               row.full_sentence = db[FirstPosition(db, row.sentence_id)].full_sentence
        /\ \A row \in SeqRange(summaries[2][1]) :
               row.full_sentence
                  = shuffled[FirstPosition(shuffled, row.sentence_id)].full_sentence
        /\ InOrderOfAppearance(summaries[1][1], db)
        /\ InOrderOfAppearance(summaries[2][1], shuffled)

\* two sentences fit, the second comes first in the other order
C15_Witness ==
    /\ BothAnalyzed
    /\ Len(summaries[1][1]) = 2
    /\ summaries[1][1][1].sentence_id = 1
    /\ summaries[2][1][1].sentence_id = 2
    /\ shuffled # db

\* the rows of a frame or of the table that belong to one session and user
OfReport(rows, session, user) ==
    Cardinality({i \in DOMAIN rows :
        rows[i].session_id = session /\ rows[i].user_id = user})

StoredOfReport(session, user) ==
    CountIf(store, LAMBDA row : /\ row.test_reports_qsin.session_id = session
                                /\ row.test_reports_qsin.user_id = user)

IsTestRow(session, user) ==
    HasDummyPrefix(session) \/ user = Some(TEMP_USER_ID)

\* C16: the two modes partition the stored rows that have a report: each
\* such row is returned by exactly one of use_dummy_prefix=True (session_id
\* starts with 'dummy_' or user_id is TEMP_USER_ID) and False (neither); no
\* row is returned by both modes or by neither, and no test row is in a
\* production analysis.
C16_ModesPartition ==
    (selection[TRUE] # None /\ selection[FALSE] # None) =>
        \A i \in DOMAIN store :
            LET session == store[i].test_reports_qsin.session_id
                user    == store[i].test_reports_qsin.user_id
                inTrue  == OfReport(Selected(TRUE).df, session, user)
                inFalse == OfReport(Selected(FALSE).df, session, user)
            IN  /\ inTrue + inFalse = StoredOfReport(session, user)
                /\ IsTestRow(session, user) => inFalse = 0
                /\ ~IsTestRow(session, user) => inTrue = 0

\* C17: in dummy mode the merge of the two query results loses no
\* observation and duplicates none: a stored row both filters match appears
\* once, and every distinct stored row that a filter matches appears; the
\* key (index, session_id, snr_level) never collapses two distinct rows.
C17_MergeKeepsEveryRow ==
    selection[TRUE] # None =>
        /\ Len(Selected(TRUE).all_records)
              = CountIf(store, LAMBDA row :
                    dummy_session_filter(row) \/ temp_user_filter(row))
        /\ \A i \in DOMAIN store :
               LET SameAs(row) == row = store[i]
               IN  (dummy_session_filter(store[i]) \/ temp_user_filter(store[i])) =>
                      CountIf(Selected(TRUE).all_records, SameAs)
                         = CountIf(store, SameAs)

-----------------------------------------------------------------------------
(* Properties of the session fields, under SpecSession *)

SessionFields ==
    <<analysis_results_df, data_snr_range, temp_download_data, total_data_rows>>

AllNone == \A k \in DOMAIN SessionFields : SessionFields[k] = None

AllSet == \A k \in DOMAIN SessionFields : SessionFields[k] # None

\* the four fields come from one fetched table, the one the CSV holds
FromOneFetch ==
    LET ids    == read_csv_column(temp_download_data[1], "sentence_id")
        levels == read_csv_column(temp_download_data[1], "snr_level")
    IN  /\ total_data_rows[1] = Len(ids)
        /\ data_snr_range[1] = <<SeqMin(levels), SeqMax(levels)>>
        /\ \A row \in SeqRange(analysis_results_df[1]) :
               row.data_points = Cardinality({i \in DOMAIN ids : ids[i] = row.sentence_id})

\* C18: after any sequence of fetches and resets, fetches without data and
\* fetches that end part-way among them, the four session fields are all
\* None or all set, and when set they come from the same fetch; a reset and
\* an empty fetch leave all four None.
C18_SessionFieldsTogether ==
    /\ AllNone \/ (AllSet /\ FromOneFetch)
    /\ trigger = "reset" => AllNone
    /\ (trigger = "fetch" /\ db = <<>>) => AllNone

-----------------------------------------------------------------------------
(* Properties of the Generator page, under SpecGenerator *)

\* C19: when the Generator page shows its success message, the number of
\* reports it names is the number of SNR-grid entries whose call succeeded
\* (the length of created_ids) and the number of scores it names is the sum
\* of the payload sizes of those calls; a failed call does not keep the
\* later levels from being tried.
C19_MessageCountsCreated ==
    /\ (page_message # None /\ page_message[1].kind = "success") =>
          /\ page_message[1].reports = Len(created_ids)
          /\ page_message[1].scores = bank * Len(created_ids)
    /\ (page_message # None /\ page_message[1].kind # "warning") =>
          grid_pos = Len(SNR_GRID)

-----------------------------------------------------------------------------
(* Properties of the combined plot's call, under Spec *)

\* C20: whenever a batch analysis has produced a non-empty report, the
\* page's call of create_combined_psychometric_plot passes only arguments
\* the function accepts, so the run reaches the reconstruction of the curves
\* and the drawing of the plot without raising.
C20_PlotCallAccepted ==
    Shown(analysis_results_df, temp_download_data) =>
        /\ PlotKeywords \subseteq PlotParameters
        /\ plot_call = Some("figure")

====
